---- MODULE Spec2Model ----
(***************************************************************************)
(* EndesaHunter (src/src/lib/EndesaHunter.ts): one harvesting run of the   *)
(* invoice portal -- init, login, discovery of the rows newer than the     *)
(* watermark, the sequential download loop, the outcome report and the     *)
(* release of the browser -- together with the download directory and a    *)
(* caller that runs the hunter again with an advanced watermark.           *)
(***************************************************************************)
EXTENDS Integers, Sequences, FiniteSets, TLC

\* ------------------------------------------------------------------ bounds
MaxRows == 2        \* rows shown on the list view
MaxRuns == 2        \* runs performed one after another by the caller

\* ------------------------------------------------------------------ dates
\* A Moment is its timestamp, counted in half days; Invalid is an invalid
\* Moment (moment(...).isValid() === false).
Invalid == -1

HalfDaysPerDay == 2
DaysPerMonth == 31
MonthsPerYear == 12

\* The text of a date cell, already split into the fields of the page's date
\* format (day, month, four-digit year).
Label(d, m, y) == [d |-> d, m |-> m, y |-> y]

IsLeap(y) == (y % 4 = 0 /\ y % 100 # 0) \/ y % 400 = 0

DaysInMonth(m, y) ==
    IF m = 2 THEN (IF IsLeap(y) THEN 29 ELSE 28)
    ELSE IF m \in {4, 6, 9, 11} THEN 30 ELSE 31

\* A parse that lets day and month overflow instead of reporting them.
ParseDateLenient(l) ==
    ((l.y * MonthsPerYear + (l.m - 1)) * DaysPerMonth + (l.d - 1)) * HalfDaysPerDay

\* moment(text, pageDateFormat, pageLocale): the start of the day the label
\* names, or an invalid Moment when the fields name no day. It never throws.
ParseDate(l) ==
    IF l.m \in 1..MonthsPerYear /\ l.d \in 1..DaysInMonth(l.m, l.y) /\ l.y > 0
    THEN ((l.y * MonthsPerYear + (l.m - 1)) * DaysPerMonth + (l.d - 1)) * HalfDaysPerDay
    ELSE Invalid

\* Moment#isBefore: false as soon as one side is invalid.
IsBeforeOrSame(a, b) == a # Invalid /\ b # Invalid /\ a <= b

IsBefore(a, b) == a # Invalid /\ b # Invalid /\ a < b

\* row.date.format("DD-MM-YY"): day, month and the last two digits of the year.
FormatDate(t) ==
    LET day == t \div HalfDaysPerDay
        mon == day \div DaysPerMonth
    IN  [d |-> (day % DaysPerMonth) + 1,
         m |-> (mon % MonthsPerYear) + 1,
         y |-> (mon \div MonthsPerYear) % 100]

\* The labels a list view may show: three days (two of them a century apart)
\* and a text that names no day.
Labels ==
    { Label(5, 3, 2024), Label(1, 4, 2024), Label(5, 3, 1924), Label(31, 2, 2024) }

\* The watermarks a caller may pass: before every row, the start of a row's
\* day, the middle of that day, and an invalid Moment.
Watermarks ==
    { 0, ParseDate(Label(5, 3, 2024)), ParseDate(Label(5, 3, 2024)) + 1, Invalid }

RowLists == UNION { [1..n -> Labels] : n \in 0..MaxRows }

\* ------------------------------------------------------------------ discovery
ProcessedRow(i, l) == [selector |-> i, date |-> ParseDate(l), rawDate |-> l]

RECURSIVE FindRowsFrom(_, _, _, _)
FindRowsFrom(rs, w, i, result) ==
    IF i > Len(rs) THEN result
    ELSE FindRowsFrom(rs, w, i + 1,
            IF IsBefore(w, ParseDate(rs[i]))
            THEN Append(result, ProcessedRow(i, rs[i]))
            ELSE result)

FindRowsReversed(rs, w) ==
    LET r == FindRowsFrom(rs, w, 1, << >>)
    IN  [k \in 1..Len(r) |-> r[Len(r) + 1 - k]]

\* A discovery that keeps one row per issue date.
RECURSIVE FindRowsDedupedFrom(_, _, _, _)
FindRowsDedupedFrom(rs, w, i, result) ==
    IF i > Len(rs) THEN result
    ELSE FindRowsDedupedFrom(rs, w, i + 1,
            IF /\ IsBefore(w, ParseDate(rs[i]))
               /\ \A j \in 1..Len(result) : result[j].date # ParseDate(rs[i])
            THEN Append(result, ProcessedRow(i, rs[i]))
            ELSE result)

FindRowsDeduped(rs, w) == FindRowsDedupedFrom(rs, w, 1, << >>)

FindRowsToProcess(rs, w) == FindRowsFrom(rs, w, 1, << >>)

\* ------------------------------------------------------------------ state
VARIABLES
    run,              \* number of the current run (one EndesaHunter per run)
    pc,               \* position of run() in its code
    exit,             \* how run() ended: "none" while running, "returned", "thrown"
    browser,          \* this.browser: "undefined", "open", "closed"
    page,             \* this.page: "undefined", "open", "closed"
    pageCloseCalls,   \* invocations of page.close() in this run
    browserCloseCalls,\* invocations of browser.close() in this run
    loginError,       \* the step of login() that threw, or "none"
    failure,          \* the step of init() or of the download phase (outside
                      \* the per-record try) that threw, or "none"
    rows,             \* the date labels of the rows of the list view
    lastInvoiceDate,  \* this.lastInvoiceDate, the watermark
    rowsToProcess,    \* this.rowsToProcess
    i,                \* loop index of downloadInvoices (0-based)
    downloadedCount,  \* local downloadedCount of downloadInvoices
    count,            \* the value downloadInvoices returned, or NoCount
    tickTotal,        \* argument of reporter.progress, 0 before it is created
    ticks,            \* calls of tick()
    navs,             \* completed navigations to the list view
    attempted,        \* positions (in rowsToProcess) handed to processRowItem
    failed,           \* positions whose processRowItem threw
    downloaded,       \* positions counted by downloadedCount++
    outcomes,         \* outcome messages printed by run(), in order
    srcFile,          \* content of <invoiceName>.<ext> in the download dir
    inflight,         \* downloads triggered whose file has not appeared yet
    stored,           \* content of each date-named file in the download dir
    prevRun           \* page rows the previous run selected, and those it downloaded

vars ==
    << run, pc, exit, browser, page, pageCloseCalls, browserCloseCalls,
       loginError, failure, rows, lastInvoiceDate, rowsToProcess, i,
       downloadedCount,
       count, tickTotal, ticks, navs, attempted, failed, downloaded, outcomes,
       srcFile, inflight, stored, prevRun >>

session == << browser, page, pageCloseCalls, browserCloseCalls >>
loopState == << i, downloadedCount, ticks, attempted, failed, downloaded >>
files == << srcFile, inflight, stored >>
inputs == << run, rows, lastInvoiceDate, prevRun >>

NoCount == [total |-> -1, downloaded |-> -1]
NoFile == -1
\* A canonical source file that was in the download directory before the
\* first run; every other content is the page row the document belongs to.
Stale == 0

Names == { FormatDate(ParseDate(l)) : l \in { x \in Labels : ParseDate(x) # Invalid } }

LoginSteps ==
    { "goto", "typeUsername", "typePassword", "clickCookies", "clickSubmit",
      "waitForNavigation", "waitForTimeout" }

\* The state a freshly constructed EndesaHunter starts run() in.
Fresh ==
    /\ pc = "launch"
    /\ exit = "none"
    /\ browser = "undefined"
    /\ page = "undefined"
    /\ pageCloseCalls = 0
    /\ browserCloseCalls = 0
    /\ loginError = "none"
    /\ failure = "none"
    /\ rowsToProcess = << >>
    /\ i = 0
    /\ downloadedCount = 0
    /\ count = NoCount
    /\ tickTotal = 0
    /\ ticks = 0
    /\ navs = 0
    /\ attempted = << >>
    /\ failed = {}
    /\ downloaded = {}
    /\ outcomes = << >>
    /\ inflight = {}

Init ==
    /\ Fresh
    /\ run = 1
    /\ rows \in RowLists
    /\ lastInvoiceDate \in Watermarks
    /\ srcFile \in {NoFile, Stale}
    /\ stored = [n \in Names |-> NoFile]
    /\ prevRun = [candidates |-> {}, downloaded |-> {}]

\* ------------------------------------------------------------------ init()
\* run() line 67: an error of init() leaves run() at once.
InitSwallowed ==
    /\ pc' = "login"
    /\ UNCHANGED exit

InitThrows ==
    /\ pc' = "done"
    /\ exit' = "thrown"

Launch ==
    /\ pc = "launch"
    /\ \/ /\ browser' = "open"
          /\ pc' = "newPage"
          /\ UNCHANGED << exit, failure >>
       \/ /\ InitThrows
          /\ failure' = "launch"
          /\ UNCHANGED browser
    /\ UNCHANGED << page, pageCloseCalls, browserCloseCalls, loginError,
                    rowsToProcess, count, tickTotal, navs, outcomes,
                    loopState, files, inputs >>

NewPage ==
    /\ pc = "newPage"
    /\ \/ /\ page' = "open"
          /\ pc' = "initGoto"
          /\ UNCHANGED << exit, failure >>
       \/ /\ InitThrows
          /\ failure' = "newPage"
          /\ UNCHANGED page
    /\ UNCHANGED << browser, pageCloseCalls, browserCloseCalls, loginError,
                    rowsToProcess, count, tickTotal, navs, outcomes,
                    loopState, files, inputs >>

InitGoto ==
    /\ pc = "initGoto"
    /\ \/ /\ pc' = "login"
          /\ UNCHANGED << exit, failure >>
       \/ /\ InitThrows
          /\ failure' = "initGoto"
    /\ UNCHANGED << session, loginError, rowsToProcess, count, tickTotal,
                    navs, outcomes, loopState, files, inputs >>

\* ------------------------------------------------------------------ login()
Message(level, msg) == [level |-> level, msg |-> msg]

\* run() lines 75-79: the catch around login().
LoginCatchContinues(step) ==
    /\ loginError' = step
    /\ outcomes' = Append(outcomes, Message("error", "Failed to login"))
    /\ pc' = "navigate"

LoginCatch(step) ==
    /\ loginError' = step
    /\ outcomes' = Append(outcomes, Message("error", "Failed to login"))
    /\ pc' = "pageClose"

Login ==
    /\ pc = "login"
    /\ \/ /\ pc' = "navigate"
          /\ UNCHANGED << loginError, outcomes >>
       \/ \E step \in LoginSteps : LoginCatch(step)
    /\ UNCHANGED << exit, session, failure, rowsToProcess, count, tickTotal,
                    navs, loopState, files, inputs >>

\* ------------------------------------------------------------------ downloadInvoices()
\* run() lines 97-100: the catch around the download phase.
PhaseCatchRethrows ==
    /\ outcomes' = Append(outcomes, Message("error", "Failed to download invoices"))
    /\ pc' = "done"

PhaseCatch ==
    /\ outcomes' = Append(outcomes, Message("error", "Failed to download invoices"))
    /\ pc' = "pageClose"

\* Lines 152-153: the first navigation to the list view; it is outside every
\* try of downloadInvoices, so its error reaches the catch of run().
Navigate ==
    /\ pc = "navigate"
    /\ \/ /\ navs' = navs + 1
          /\ pc' = "discover"
          /\ UNCHANGED << outcomes, failure >>
       \/ /\ PhaseCatch
          /\ failure' = "navigate"
          /\ UNCHANGED navs
    /\ UNCHANGED << exit, session, loginError, rowsToProcess, count,
                    tickTotal, loopState, files, inputs >>

\* Lines 155-165: page.$$ and the text extraction may throw; otherwise the
\* rows are filtered, and an empty result returns {total: 0, downloaded: 0}.
Discover ==
    /\ pc = "discover"
    /\ \/ /\ rowsToProcess' = FindRowsToProcess(rows, lastInvoiceDate)
          /\ IF Len(rowsToProcess') = 0
             THEN /\ count' = [total |-> 0, downloaded |-> downloadedCount]
                  /\ pc' = "report"
                  /\ UNCHANGED tickTotal
             ELSE /\ tickTotal' = Len(rowsToProcess')
                  /\ pc' = "loop"
                  /\ UNCHANGED count
          /\ UNCHANGED << outcomes, failure >>
       \/ /\ PhaseCatch
          /\ failure' = "discover"
          /\ UNCHANGED << rowsToProcess, count, tickTotal >>
    /\ UNCHANGED << exit, session, loginError, navs, loopState, files, inputs >>

\* Line 192: the value downloadInvoices returns after the loop.
LoopResultSwapped == [total |-> downloadedCount, downloaded |-> Len(rowsToProcess)]

LoopResult == [total |-> Len(rowsToProcess), downloaded |-> downloadedCount]

\* Lines 169-173: completed navigations once the head of the loop is passed.
NavsAfterHeadAlways == navs + 1

NavsAfterHead == IF i > 0 THEN navs + 1 ELSE navs

\* Lines 167-177 and 192: the loop test, the return after the last record,
\* and the navigation back to the list view before every record but the first.
LoopHead ==
    /\ pc = "loop"
    /\ IF i < Len(rowsToProcess)
       THEN \/ /\ navs' = NavsAfterHead
               /\ pc' = "open"
               /\ UNCHANGED << count, outcomes, failure >>
            \/ /\ i > 0
               /\ PhaseCatch
               /\ failure' = "renavigate"
               /\ UNCHANGED << count, navs >>
       ELSE /\ count' = LoopResult
            /\ pc' = "report"
            /\ UNCHANGED << navs, outcomes, failure >>
    /\ UNCHANGED << exit, session, loginError, rowsToProcess, tickTotal,
                    loopState, files, inputs >>

\* Lines 183-189: the catch of one record, then tick() and the next index.
ItemFailedCounted ==
    /\ failed' = failed \cup {i + 1}
    /\ downloadedCount' = downloadedCount + 1
    /\ ticks' = ticks + 1
    /\ i' = i + 1
    /\ pc' = "loop"
    /\ UNCHANGED downloaded

ItemFailedRetried ==
    /\ failed' = failed \cup {i + 1}
    /\ ticks' = ticks + 1
    /\ pc' = "loop"
    /\ UNCHANGED << i, downloaded, downloadedCount >>

ItemFailed ==
    /\ failed' = failed \cup {i + 1}
    /\ ticks' = ticks + 1
    /\ i' = i + 1
    /\ pc' = "loop"
    /\ UNCHANGED << downloaded, downloadedCount >>

\* Lines 182 and 187-189: processRowItem returned; the record is counted.
ItemDoneNoTick ==
    /\ downloaded' = downloaded \cup {i + 1}
    /\ downloadedCount' = downloadedCount + 1
    /\ i' = i + 1
    /\ pc' = "loop"
    /\ UNCHANGED << failed, ticks >>

ItemDone ==
    /\ downloaded' = downloaded \cup {i + 1}
    /\ downloadedCount' = downloadedCount + 1
    /\ ticks' = ticks + 1
    /\ i' = i + 1
    /\ pc' = "loop"
    /\ UNCHANGED failed

\* processRowItem lines 242-245: click the record's action button and wait
\* for the invoice content.
OpenRecord ==
    /\ pc = "open"
    /\ attempted' = Append(attempted, i + 1)
    /\ \/ /\ pc' = "save"
          /\ UNCHANGED << i, downloadedCount, ticks, failed, downloaded >>
       \/ ItemFailed
    /\ UNCHANGED << exit, session, loginError, failure, rowsToProcess, count,
                    tickTotal, navs, outcomes, files, inputs >>

\* saveInvoice lines 257-263: set the download directory, wait for the
\* download button and click it; the browser then starts the download.
TriggerDownload ==
    /\ pc = "save"
    /\ \/ /\ inflight' = inflight \cup {rowsToProcess[i + 1].selector}
          /\ pc' = "poll"
          /\ UNCHANGED loopState
       \/ /\ ItemFailed
          /\ UNCHANGED << attempted, inflight >>
    /\ UNCHANGED << exit, session, loginError, failure, rowsToProcess, count,
                    tickTotal, navs, outcomes, srcFile, stored, inputs >>

\* The browser finishes a download: the file appears under the canonical
\* name, or, when that name is taken, either replaces it or is written under
\* a name of the browser's choosing.
DownloadArrives ==
    /\ browser = "open"
    /\ \E c \in inflight :
          /\ inflight' = inflight \ {c}
          /\ srcFile' \in (IF srcFile = NoFile THEN {c} ELSE {c, srcFile})
    /\ UNCHANGED << pc, exit, session, loginError, failure, rowsToProcess, count,
                    tickTotal, navs, outcomes, loopState, stored, inputs >>

\* waitUntilFileIsDownloaded lines 288-294: return when the path exists,
\* otherwise wait a second and look again.
PollGivesUp ==
    /\ pc = "poll"
    /\ pc' = "rename"
    /\ UNCHANGED << exit, session, loginError, failure, rowsToProcess, count,
                    tickTotal, navs, outcomes, loopState, files, inputs >>

Poll ==
    /\ pc = "poll"
    /\ pc' = (IF srcFile # NoFile THEN "rename" ELSE "poll")
    /\ UNCHANGED << exit, session, loginError, failure, rowsToProcess, count,
                    tickTotal, navs, outcomes, loopState, files, inputs >>

\* saveInvoice lines 251-253 and 267-278: fs.rename of the canonical file to
\* the date-derived name (replacing a file of that name), or its error.
Rename ==
    /\ pc = "rename"
    /\ \/ /\ srcFile # NoFile
          /\ stored' = [stored EXCEPT ![FormatDate(rowsToProcess[i + 1].date)] = srcFile]
          /\ srcFile' = NoFile
          /\ ItemDone
       \/ /\ ItemFailed
          /\ UNCHANGED << srcFile, stored >>
    /\ UNCHANGED << exit, session, loginError, failure, rowsToProcess, count,
                    tickTotal, navs, outcomes, attempted, inflight, inputs >>

\* ------------------------------------------------------------------ run(): report and release
\* Lines 85-96: the outcome message chosen from the returned counts.
ClassifyNoError(total, n) ==
    IF total > 0
    THEN Message(IF total = n THEN "success" ELSE "info", "Downloaded")
    ELSE Message("warn", "No invoices found")

Classify(total, n) ==
    IF total > 0
    THEN Message(IF total = n THEN "success"
                 ELSE IF n = 0 THEN "error" ELSE "info", "Downloaded")
    ELSE Message("warn", "No invoices found")

Report ==
    /\ pc = "report"
    /\ outcomes' = Append(outcomes, Classify(count.total, count.downloaded))
    /\ pc' = "pageClose"
    /\ UNCHANGED << exit, session, loginError, failure, rowsToProcess, count,
                    tickTotal, navs, loopState, files, inputs >>

\* Lines 77 and 102: await this.page?.close(); its error leaves run().
PageClose ==
    /\ pc = "pageClose"
    /\ pageCloseCalls' = pageCloseCalls + 1
    /\ \/ /\ page' = "closed"
          /\ pc' = "browserClose"
          /\ UNCHANGED exit
       \/ /\ pc' = "done"
          /\ exit' = "thrown"
          /\ UNCHANGED page
    /\ UNCHANGED << browser, browserCloseCalls, loginError, failure,
                    rowsToProcess, count, tickTotal, navs, outcomes,
                    loopState, files, inputs >>

\* Lines 78-79 and 103: await this.browser?.close(), then run() returns.
BrowserCloseSkipped ==
    /\ pc = "browserClose"
    /\ pc' = "done"
    /\ exit' = "returned"
    /\ UNCHANGED << browser, browserCloseCalls, page, pageCloseCalls,
                    loginError, failure, rowsToProcess, count, tickTotal, navs,
                    outcomes, loopState, files, inputs >>

BrowserClose ==
    /\ pc = "browserClose"
    /\ browserCloseCalls' = browserCloseCalls + 1
    /\ pc' = "done"
    /\ \/ /\ browser' = "closed"
          /\ exit' = "returned"
       \/ /\ exit' = "thrown"
          /\ UNCHANGED browser
    /\ UNCHANGED << page, pageCloseCalls, loginError, failure, rowsToProcess,
                    count, tickTotal, navs, outcomes, loopState, files, inputs >>

\* ------------------------------------------------------------------ the caller
RECURSIVE MaxOf(_)
MaxOf(S) ==
    LET x == CHOOSE y \in S : TRUE
    IN  IF S = {x} THEN x
        ELSE LET r == MaxOf(S \ {x}) IN IF x > r THEN x ELSE r

DownloadedDates == { rowsToProcess[k].date : k \in downloaded }

\* Constructor lines 43-64, called for the next run over the same list view
\* and download directory once a run has ended: the watermark is advanced to
\* the newest issue date the ended run downloaded.
Rerun ==
    /\ pc = "done"
    /\ run < MaxRuns
    /\ downloaded # {}
    /\ run' = run + 1
    /\ lastInvoiceDate' = MaxOf(DownloadedDates)
    /\ prevRun' = [candidates |-> { rowsToProcess[k].selector : k \in 1..Len(rowsToProcess) },
                   downloaded |-> { rowsToProcess[k].selector : k \in downloaded }]
    /\ pc' = "launch"
    /\ exit' = "none"
    /\ browser' = "undefined"
    /\ page' = "undefined"
    /\ pageCloseCalls' = 0
    /\ browserCloseCalls' = 0
    /\ loginError' = "none"
    /\ failure' = "none"
    /\ rowsToProcess' = << >>
    /\ i' = 0
    /\ downloadedCount' = 0
    /\ count' = NoCount
    /\ tickTotal' = 0
    /\ ticks' = 0
    /\ navs' = 0
    /\ attempted' = << >>
    /\ failed' = {}
    /\ downloaded' = {}
    /\ outcomes' = << >>
    /\ inflight' = {}
    /\ UNCHANGED << rows, srcFile, stored >>

Next ==
    \/ Launch
    \/ NewPage
    \/ InitGoto
    \/ Login
    \/ Navigate
    \/ Discover
    \/ LoopHead
    \/ OpenRecord
    \/ TriggerDownload
    \/ DownloadArrives
    \/ Poll
    \/ Rename
    \/ Report
    \/ PageClose
    \/ BrowserClose
    \/ Rerun

Spec == Init /\ [][Next]_vars

\* The steps of run() itself: every awaited call returns or throws.
RunStep ==
    \/ Launch
    \/ NewPage
    \/ InitGoto
    \/ Login
    \/ Navigate
    \/ Discover
    \/ LoopHead
    \/ OpenRecord
    \/ TriggerDownload
    \/ Poll
    \/ Rename
    \/ Report
    \/ PageClose
    \/ BrowserClose

\* The same program when run() keeps being scheduled and the file of every
\* triggered download eventually appears.
LiveSpec == Spec /\ WF_vars(RunStep) /\ WF_vars(DownloadArrives)

TypeOK ==
    /\ run \in 1..MaxRuns
    /\ exit \in {"none", "returned", "thrown"}
    /\ browser \in {"undefined", "open", "closed"}
    /\ page \in {"undefined", "open", "closed"}
    /\ i \in 0..MaxRows
    /\ srcFile \in {NoFile, Stale} \cup (1..MaxRows)

\* ------------------------------------------------------------------ properties
\* Discovery of this run has produced its processing set.
Discovered == count.total = 0 \/ tickTotal > 0

\* run() is past the download phase (releasing the session, or ended).
Releasing == pc \in {"pageClose", "browserClose", "done"}

Selected == { rowsToProcess[j].selector : j \in 1..Len(rowsToProcess) }

ValidRows == { k \in 1..Len(rows) : ParseDate(rows[k]) # Invalid }

\* C1: after discovery a row whose label parses to the date d is in the
\* processing set exactly when the watermark is an instant strictly before d;
\* rows dated at or before the watermark are never in it.
C1FilterCorrect ==
    Discovered =>
        \A k \in ValidRows :
            LET d == ParseDate(rows[k])
            IN  /\ (k \in Selected) <=> (lastInvoiceDate # Invalid /\ lastInvoiceDate < d)
                /\ d <= lastInvoiceDate => k \notin Selected

C1Witness ==
    /\ Discovered
    /\ \E k \in ValidRows : k \in Selected
    /\ \E k \in ValidRows : ParseDate(rows[k]) = lastInvoiceDate /\ k \notin Selected

\* C2: a step in which opening or downloading a record fails leads to the
\* head of the loop at the next record, with the success counter, the exit
\* status and the outcome messages untouched; and when the loop returns,
\* every record was attempted and the returned downloaded count is the
\* number of records minus the number of records that failed.
C2FailureStep ==
    (pc \in {"open", "save", "rename"} /\ failed' # failed) =>
        /\ pc' = "loop"
        /\ i' = i + 1
        /\ downloadedCount' = downloadedCount
        /\ exit' = "none"
        /\ outcomes' = outcomes

C2AtReturn ==
    (count # NoCount) =>
        /\ Len(attempted) = count.total
        /\ count.downloaded = count.total - Cardinality(failed)

\* C2: every step satisfies the failure-step property and every state the
\* property of the returned counts.
C2Isolation == [][C2FailureStep]_vars /\ []C2AtReturn

C2Witness ==
    /\ count.total = 2
    /\ failed = {1}
    /\ downloaded = {2}
    /\ count.downloaded = 1

\* C3: whenever run() has ended with a browser launched, browser.close() was
\* invoked exactly once.
C3ReleasedOnce ==
    (pc = "done" /\ browser # "undefined") => browserCloseCalls = 1

\* C4: after a failed login, page.close() and browser.close() are invoked at
\* most once each, the browser never before the page, and both exactly once
\* by the time run() returns.
C4LoginFailureRelease ==
    loginError # "none" =>
        /\ pageCloseCalls <= 1
        /\ browserCloseCalls <= pageCloseCalls
        /\ (pc = "browserClose" => pageCloseCalls = 1)
        /\ (exit = "returned" =>
              /\ pageCloseCalls = 1 /\ browserCloseCalls = 1
              /\ page = "closed" /\ browser = "closed")

C4Witness ==
    /\ loginError = "waitForNavigation"
    /\ exit = "returned"
    /\ browserCloseCalls = 1

\* C5: after a failed login the run only releases the session: no list view
\* is loaded, nothing is discovered, no record is opened, nothing is
\* downloaded or counted, and the session is closed when run() returns.
C5LoginFailureAborts ==
    loginError # "none" =>
        /\ Releasing
        /\ navs = 0
        /\ rowsToProcess = << >> /\ tickTotal = 0 /\ count = NoCount
        /\ attempted = << >>
        /\ inflight = {} /\ downloaded = {} /\ downloadedCount = 0
        /\ (exit = "returned" => page = "closed" /\ browser = "closed")

C5Witness ==
    /\ loginError # "none"
    /\ exit = "returned"
    /\ FindRowsToProcess(rows, lastInvoiceDate) # << >>
    /\ navs = 0

\* C6: downloadedCount is never negative, never above the number of records
\* attempted so far nor above the number of candidates, and the returned
\* counts satisfy 0 <= downloaded <= total, with downloaded = 0 when total = 0.
C6Counting ==
    /\ 0 <= downloadedCount
    /\ downloadedCount <= Len(attempted)
    /\ downloadedCount <= Len(rowsToProcess)
    /\ count # NoCount =>
          /\ 0 <= count.downloaded
          /\ count.downloaded <= count.total
          /\ (count.total = 0 => count.downloaded = 0)

C6Witness ==
    /\ count.total = 2
    /\ count.downloaded = 1
    /\ downloaded = {1}

\* C7: the processing set lists rows in page order, each with the label of
\* its row; records are attempted in that order, each once; and a run that
\* leaves the loop with records unattempted does so through a failure.
C7Order ==
    /\ \A j \in 1..Len(rowsToProcess) :
          /\ rowsToProcess[j].selector \in 1..Len(rows)
          /\ rowsToProcess[j].rawDate = rows[rowsToProcess[j].selector]
          /\ \A k \in 1..Len(rowsToProcess) :
                j < k => rowsToProcess[j].selector < rowsToProcess[k].selector
    /\ Len(attempted) <= Len(rowsToProcess)
    /\ \A k \in 1..Len(attempted) : attempted[k] = k
    /\ Len(attempted) \in {i, i + 1}
    /\ (Releasing /\ Discovered /\ Len(attempted) < Len(rowsToProcess)) =>
          /\ count = NoCount
          /\ outcomes = << Message("error", "Failed to download invoices") >>

C7Witness ==
    /\ Len(rowsToProcess) = 2
    /\ attempted = << 1, 2 >>
    /\ ParseDate(rows[1]) > ParseDate(rows[2])

\* C8: once the download phase has returned its counts, exactly one outcome
\* message has been printed: warn when total = 0, success when total > 0 and
\* total = downloaded, error when total > 0 and downloaded = 0, info otherwise.
C8Outcome ==
    /\ (pc = "report" => outcomes = << >>)
    /\ (Releasing /\ count # NoCount) =>
          LET t == count.total
              n == count.downloaded
              level == IF t = 0 THEN "warn"
                       ELSE IF t = n THEN "success"
                       ELSE IF n = 0 THEN "error"
                       ELSE "info"
          IN  /\ Len(outcomes) = 1
              /\ outcomes[1].level = level
              /\ (outcomes[1].msg = "No invoices found") <=> (t = 0)

C8Witness ==
    /\ Releasing
    /\ count = [total |-> 2, downloaded |-> 0]
    /\ outcomes = << Message("error", "Downloaded") >>

\* C9: when the download phase of a run with N candidates has ended, tick()
\* was called exactly N times.
C9TicksEqualCandidates ==
    (Releasing /\ Discovered) => ticks = Len(rowsToProcess)

\* C10 (as stated): a run that follows a run with downloads, with the
\* watermark advanced to the newest downloaded issue date, discovers nothing.
C10RerunFindsNothing ==
    (run > 1 /\ Discovered) => Len(rowsToProcess) = 0

\* C10 (amended): such a run selects none of the rows the previous run
\* downloaded, only rows dated after the new watermark; and it discovers
\* nothing when the previous run downloaded every record it had selected.
C10NoRedownload ==
    (run > 1 /\ Discovered) =>
        /\ Selected \cap prevRun.downloaded = {}
        /\ \A j \in 1..Len(rowsToProcess) : rowsToProcess[j].date > lastInvoiceDate
        /\ (prevRun.candidates = prevRun.downloaded => Len(rowsToProcess) = 0)

C10Witness ==
    /\ run = 2
    /\ Discovered
    /\ Cardinality(prevRun.downloaded) = 2
    /\ prevRun.candidates = prevRun.downloaded
    /\ count.total = 0

\* C11: in a run whose init and login succeeded and whose discovery found
\* candidates, whenever the download phase is over every candidate was
\* attempted and the counts were returned with every success in them.
C11OnlySessionFailuresFatal ==
    (Releasing /\ loginError = "none" /\ tickTotal > 0) =>
        /\ Len(attempted) = Len(rowsToProcess)
        /\ count = [total |-> Len(rowsToProcess), downloaded |-> Cardinality(downloaded)]

\* The text of a date cell that names no day of the calendar.
NamesNoDay(l) == ~(l.y > 0 /\ l.m \in 1..12 /\ l.d \in 1..DaysInMonth(l.m, l.y))

MalformedRows == { k \in 1..Len(rows) : NamesNoDay(rows[k]) }

\* C12 (as stated): with a row whose label does not parse on the list view,
\* no processing set is produced and no record is downloaded.
C12MalformedRowAborts ==
    MalformedRows # {} => (rowsToProcess = << >> /\ downloaded = {})

\* C12 (amended): discovery completes over a list with a malformed label;
\* the processing set is exactly the well-formed rows dated after the
\* watermark, so the malformed row is left out and the other rows are kept.
C12MalformedRowSkipped ==
    Discovered =>
        /\ Selected = { k \in (1..Len(rows)) \ MalformedRows :
                          lastInvoiceDate # Invalid /\ lastInvoiceDate < ParseDate(rows[k]) }
        /\ \A j \in 1..Len(rowsToProcess) : rowsToProcess[j].date # Invalid

C12Witness ==
    /\ Discovered
    /\ MalformedRows = {1}
    /\ Selected = {2}
    /\ downloaded = {1}
    /\ count = [total |-> 1, downloaded |-> 1]

\* C13 (as stated): on a list view with rows, the processing set never
\* holds every row.
C13StrictSubset ==
    (Discovered /\ Len(rows) > 0) =>
        (Selected \subseteq 1..Len(rows) /\ Selected # 1..Len(rows))

\* C13 (amended): the processing set is a subset of the rows of the list
\* view, possibly all of them; it holds each selected row once, in page
\* order, keeps rows that carry the same label, and the loop attempts its
\* elements in that order.
C13Subset ==
    Discovered =>
        /\ Selected \subseteq 1..Len(rows)
        /\ Cardinality(Selected) = Len(rowsToProcess)
        /\ \A j \in 1..Len(rowsToProcess) : \A k \in 1..Len(rowsToProcess) :
              j < k => rowsToProcess[j].selector < rowsToProcess[k].selector
        /\ \A j \in 1..Len(rows) : \A k \in 1..Len(rows) :
              rows[j] = rows[k] => (j \in Selected <=> k \in Selected)
        /\ \A k \in 1..Len(attempted) : attempted[k] = k

C13Witness ==
    /\ Discovered
    /\ Len(rows) = 2
    /\ rows[1] = rows[2]
    /\ Selected = {1, 2}
    /\ attempted = << 1, 2 >>

InitSteps == {"launch", "newPage", "initGoto"}

PhaseSteps == {"navigate", "discover", "renavigate"}

\* C14: after an error of the download phase (first navigation, enumeration
\* and discovery, or a navigation inside the loop) run() has printed the
\* error, returned no counts and gone on to release the session: it ends only
\* after page.close() was invoked, and has closed page and browser when it
\* returns.
C14PhaseErrorCaught ==
    failure \in PhaseSteps =>
        /\ Releasing
        /\ loginError = "none"
        /\ count = NoCount
        /\ outcomes = << Message("error", "Failed to download invoices") >>
        /\ (pc = "done" => pageCloseCalls = 1 /\ exit # "none")
        /\ (exit = "returned" =>
              /\ pageCloseCalls = 1 /\ browserCloseCalls = 1
              /\ page = "closed" /\ browser = "closed")

C14Witness ==
    /\ failure = "renavigate"
    /\ exit = "returned"
    /\ downloaded = {1}
    /\ browser = "closed"

\* C15: after a failure of init() run() has ended by throwing, with no
\* login, no message, no navigation, no discovery and no download.
C15InitFailureAborts ==
    failure \in InitSteps =>
        /\ pc = "done"
        /\ exit = "thrown"
        /\ loginError = "none"
        /\ outcomes = << >>
        /\ navs = 0
        /\ rowsToProcess = << >> /\ tickTotal = 0 /\ count = NoCount
        /\ attempted = << >>
        /\ inflight = {} /\ downloaded = {}
        /\ pageCloseCalls = 0 /\ browserCloseCalls = 0

C15Witness ==
    /\ failure = "initGoto"
    /\ exit = "thrown"
    /\ page = "open"
    /\ FindRowsToProcess(rows, lastInvoiceDate) # << >>

\* C16: when a record is about to be opened, the completed list-view
\* navigations are one more than the records opened before it (the discovery
\* navigation for the first record, one more for each later record); in
\* between, the navigations equal the records opened.
C16NavigationPerRecord ==
    /\ (pc = "open" => navs = Len(attempted) + 1 /\ Len(attempted) = i)
    /\ (pc \in {"save", "poll", "rename"} => navs = Len(attempted) /\ Len(attempted) = i + 1)
    /\ (pc = "loop" => navs = (IF i = 0 THEN 1 ELSE i) /\ Len(attempted) = i)

C16Witness ==
    /\ pc = "open"
    /\ i = 1
    /\ navs = 2
    /\ attempted = << 1 >>

\* The state of the session of the current run: Initialized once init()
\* has completed, Authenticated once login() has, Harvesting from the first
\* list-view navigation until the release, Closed once run() has returned,
\* Failed after a failed login, an error of the download phase or an error
\* of the release. A run whose init() failed never leaves Uninitialized.
SessionState ==
    IF loginError # "none" \/ failure \in PhaseSteps \/ (exit = "thrown" /\ failure = "none")
    THEN "Failed"
    ELSE IF pc \in {"launch", "newPage", "initGoto"} \/ failure \in InitSteps
    THEN "Uninitialized"
    ELSE IF pc = "login" THEN "Initialized"
    ELSE IF pc = "navigate" THEN "Authenticated"
    ELSE IF pc = "done" THEN "Closed"
    ELSE "Harvesting"

SessionMoves ==
    { << "Uninitialized", "Initialized" >>, << "Initialized", "Authenticated" >>,
      << "Authenticated", "Harvesting" >>, << "Harvesting", "Closed" >>,
      << "Initialized", "Failed" >>, << "Authenticated", "Failed" >>,
      << "Harvesting", "Failed" >> }

\* Before Authenticated nothing was navigated to, discovered or downloaded;
\* a closed or failed session is only being released.
C17StateOK ==
    /\ SessionState \in {"Uninitialized", "Initialized"} =>
          /\ navs = 0
          /\ rowsToProcess = << >> /\ tickTotal = 0 /\ count = NoCount
          /\ attempted = << >>
          /\ inflight = {} /\ downloaded = {}
    /\ SessionState \in {"Closed", "Failed"} => Releasing

\* Within a run the session state stays or moves along the listed arrows, and
\* from a closed or failed session no step navigates, discovers, opens a
\* record, triggers a download, renames a file or counts one.
C17StepOK ==
    run' = run =>
        /\ SessionState' = SessionState \/ << SessionState, SessionState' >> \in SessionMoves
        /\ SessionState \in {"Closed", "Failed"} =>
              /\ SessionState' = SessionState
              /\ navs' = navs
              /\ rowsToProcess' = rowsToProcess
              /\ attempted' = attempted
              /\ inflight' \subseteq inflight
              /\ stored' = stored
              /\ UNCHANGED << downloaded, downloadedCount, ticks, count >>

\* C17: the session of a run only moves Uninitialized -> Initialized ->
\* Authenticated -> Harvesting -> Closed, or to Failed from Initialized or a
\* later state; Closed and Failed are left by no step of the run and no
\* browser operation follows them; nothing is discovered or downloaded
\* before Authenticated.
C17SessionStateMachine == []C17StateOK /\ [][C17StepOK]_vars

C17Witness ==
    /\ SessionState = "Failed"
    /\ failure = "renavigate"
    /\ pc = "browserClose"
    /\ inflight # {}

\* Polling leaves waitUntilFileIsDownloaded only for the rename and only
\* with the canonical file present; while the file is absent the run stays in
\* the polling step, and the polling step never fails the record.
C18PollStep ==
    pc = "poll" =>
        /\ pc' \in {"poll", "rename"}
        /\ (pc' = "rename" => srcFile # NoFile)
        /\ (srcFile = NoFile /\ srcFile' = NoFile => pc' = "poll")
        /\ UNCHANGED << failed, i, ticks, exit, browserCloseCalls >>

\* A run that has ended by returning has closed page and browser.
C18Ended ==
    /\ pc = "done"
    /\ (exit = "returned" => page = "closed" /\ browser = "closed")

\* C18: the polling step returns only when the canonical file exists and has
\* no failure path; when the file of every triggered download eventually
\* appears, every run ends, with the session released when it returns; with
\* the file absent the run never gets past the polling step.
C18PollingTermination == [][C18PollStep]_vars /\ ((pc # "done") ~> C18Ended)

C18Witness ==
    /\ pc = "poll"
    /\ srcFile = NoFile
    /\ inflight = {2}
    /\ i = 1
    /\ downloaded = {1}

\* C19: the canonical file that the polling of a record detects, and that
\* its rename moves under the record's date-derived name, is the file of the
\* download triggered for that record.
C19OwnFileStep ==
    /\ (pc = "poll" /\ pc' = "rename") => srcFile = rowsToProcess[i + 1].selector
    /\ (pc = "rename" /\ stored' # stored) =>
          /\ srcFile = rowsToProcess[i + 1].selector
          /\ stored'[FormatDate(rowsToProcess[i + 1].date)] = rowsToProcess[i + 1].selector

C19OwnFile == [][C19OwnFileStep]_vars

StoredNames == { n \in Names : stored[n] # NoFile }

\* C20: when the first run over an empty set of date-named files has ended,
\* the date-named files are as many as the records counted as downloaded, and
\* each holds the document it was given by the record counted for it.
C20FilesMatchCount ==
    (run = 1 /\ pc = "done") =>
        /\ Cardinality(StoredNames) = downloadedCount
        /\ \A j \in downloaded : \A k \in downloaded :
              j # k => FormatDate(rowsToProcess[j].date) # FormatDate(rowsToProcess[k].date)

====
